---- MODULE Spec2Model ----
(***************************************************************************)
(* Ephemeris tables of the AndroidOrrery scripts: the tabular loader and   *)
(* the interpolating query of scripts/verifyEphemerisSplit.py, the binary  *)
(* converter of scripts/convertEphemeris.py, the table layout written by   *)
(* scripts/generatePlanetsEphemeris.py and scripts/generateMoonEphemeris.py*)
(* and the angular difference of scripts/compare_with_horizons.py.         *)
(*                                                                         *)
(* Numbers.  Python floats are binary floating point numbers: every        *)
(* arithmetic operation returns the exact result rounded to the nearest    *)
(* representable number, ties to even.  The model keeps that rounding and  *)
(* reduces the width: a number is an integer count of 2^-FracBits, and a   *)
(* representable number has at most MantBits significant bits.             *)
(*                                                                         *)
(* Lists.  Python lists are sequences here; At(s, i) is s[i] of Python.    *)
(***************************************************************************)
EXTENDS Integers, Sequences, FiniteSets, TLC

\* ------------------------------------------------------------------ bounds
MantBits == 10
FracBits == 4
MaxRows == 3

RECURSIVE Pow2(_)
Pow2(k) == IF k = 0 THEN 1 ELSE 2 * Pow2(k - 1)

Unit == Pow2(FracBits)
MantLimit == Pow2(MantBits)

\* ------------------------------------------------------ float arithmetic
Abs(x) == IF x < 0 THEN -x ELSE x

\* m / d rounded to the nearest integer, ties to even (m >= 0, d > 0)
RoundHalfEven(m, d) ==
  LET q == m \div d
      r == m % d
  IN  IF 2 * r < d THEN q
      ELSE IF 2 * r > d THEN q + 1
      ELSE IF q % 2 = 0 THEN q ELSE q + 1

\* m / d rounded to MantBits significant bits (m >= 0, d > 0)
RECURSIVE RoundMag(_, _)
RoundMag(m, d) ==
  IF m < MantLimit * d THEN RoundHalfEven(m, d) ELSE 2 * RoundMag(m, 2 * d)

\* the representable number nearest to n / d  (d # 0)
RoundRat(n, d) ==
  LET nn == IF d < 0 THEN -n ELSE n
      dd == Abs(d)
  IN  IF nn >= 0 THEN RoundMag(nn, dd) ELSE -RoundMag(-nn, dd)

Fl(n) == RoundRat(n, 1)

FAdd(a, b) == Fl(a + b)
FSub(a, b) == Fl(a - b)
FMul(a, b) == RoundRat(a * b, Unit)
FDiv(a, b) == RoundRat(a * Unit, b)

\* float(x) of a decimal literal n/d, and of a whole number of degrees
Num(n, d) == RoundRat(n * Unit, d)
Deg(n) == Num(n, 1)

\* x % y of Python floats for y > 0: the exact C remainder, which has the
\* sign of x, moved into [0, y) by one (rounded) addition of y
FMod(x, y) ==
  LET r == IF x >= 0 THEN x % y ELSE -((-x) % y)
  IN  IF r < 0 THEN FAdd(r, y) ELSE r

At(s, i) == s[i + 1]
Last(s) == s[Len(s)]

VARIABLES
  target_jd,    \* interpolate: the Julian Date asked for
  times,        \* interpolate: the Julian Date column
  rows,         \* interpolate: the rows, each a list of numbers
  col_offset,   \* interpolate: the column of the right ascension
  low, high,    \* interpolate: the bisection indices
  frac, dRa,    \* interpolate: the fraction and the wrapped RA difference
  res,          \* interpolate: what the call returned or raised
  ipc,          \* interpolate: "idle", "call", "loop" or "ret"
  moon_file,    \* the file ephemeris_moon.csv
  planets_file, \* the file ephemeris_planets.csv
  now_jd,       \* main: the current Julian Date
  moon_times, moon_rows,      \* main: what load_file returned for the moon
  planet_times, planet_rows,  \* main: what load_file returned for the planets
  bi,           \* main: index into BODIES of the loop
  out,          \* the lines printed: one per body by main, and the error
                \*       line of load_file
  pc,           \* main: "load_moon", "load_planets", "bodies", "in_call",
                \*       "done" or "crashed"; "off" when main is not run
  conv_call,    \* convertEphemeris: index of the call of convert_csv_to_bin
  df,           \* convert_csv_to_bin: the rows read from the CSV file
  count,        \* convert_csv_to_bin: rows written so far
  bin_planets,  \* the file ephemeris_planets.bin
  bin_moon,     \* the file ephemeris_moon.bin
  decoded,      \* what a reader of the two binary files obtains
  cvpc,         \* convertEphemeris: "call", "rows", "done", "read" or
                \*       "crashed"; "off" when the converter is not run
  cmp_call,     \* compare_with_horizons: which call of compare_value
  orrery_val, horizons_val,   \* compare_value: the two values, or None
  diff, flag,   \* compare_value: the difference printed and its mark
  cmpc,         \* compare_value: "call" or "ret"; "off" when not run
  responses,    \* generatePlanetsEphemeris: the data lines Horizons sends
                \*       for each body, in the order of BODIES
  gb,           \* generatePlanetsEphemeris main: bodies fetched so far
  all_data,     \* generatePlanetsEphemeris main: one dict per body
  master_jds,   \* generatePlanetsEphemeris main: the sorted keys of the Sun
  gi,           \* generatePlanetsEphemeris main: index into master_jds
  gpc,          \* generatePlanetsEphemeris main: "fetch", "merge", "rows",
                \*       "done" or "failed"; "off" when it is not run
  history       \* the calls of interpolate made on one dataset, each with
                \*       its arguments and what it returned

interpVars == <<target_jd, times, rows, col_offset, low, high, frac, dRa, res, ipc>>
mainVars == <<moon_file, planets_file, now_jd, moon_times, moon_rows,
              planet_times, planet_rows, bi, out, pc>>
convVars == <<conv_call, df, count, bin_planets, bin_moon, decoded, cvpc>>
cmpVars == <<cmp_call, orrery_val, horizons_val, diff, flag, cmpc>>
genVars == <<responses, gb, all_data, master_jds, gi, gpc>>
vars == <<interpVars, mainVars, convVars, cmpVars, genVars, history>>

\* --------------------------------- verifyEphemerisSplit.py: interpolate
NoValue == [kind |-> "none", ra |-> 0, dec |-> 0, dist |-> 0]
ReturnNone == [kind |-> "None", ra |-> 0, dec |-> 0, dist |-> 0]
Raise(e) == [kind |-> e, ra |-> 0, dec |-> 0, dist |-> 0]

\* the difference taken without the wrap
WrapDelta_NoWrap(ra1, ra2) == FSub(ra2, ra1)

\* lines 115-117: the right ascension difference with the wrap handled
WrapDelta(ra1, ra2) ==
  LET d0 == FSub(ra2, ra1)
      d1 == IF d0 < -Deg(180) THEN FAdd(d0, Deg(360)) ELSE d0
  IN  IF d1 > Deg(180) THEN FSub(d1, Deg(360)) ELSE d1

\* the interpolated right ascension never brought back below 360
InterpRa_NoUpper(ra1, d, f) ==
  LET r0 == FAdd(ra1, FMul(d, f))
  IN  IF r0 < 0 THEN FAdd(r0, Deg(360)) ELSE r0

\* lines 118-120: the interpolated right ascension, brought back once
InterpRa(ra1, d, f) ==
  LET r0 == FAdd(ra1, FMul(d, f))
      r1 == IF r0 < 0 THEN FAdd(r0, Deg(360)) ELSE r0
  IN  IF r1 >= Deg(360) THEN FSub(r1, Deg(360)) ELSE r1

\* lines 122-123: declination and distance
Lerp(v1, v2, f) == FAdd(v1, FMul(FSub(v2, v1), f))

\* the range check without its upper half
InterpEnter_NoUpper ==
  /\ ipc = "call"
  /\ IF Len(times) = 0
       THEN /\ res' = Raise("IndexError")
            /\ ipc' = "ret"
            /\ UNCHANGED <<low, high>>
       ELSE IF target_jd < At(times, 0)
       THEN /\ res' = ReturnNone
            /\ ipc' = "ret"
            /\ UNCHANGED <<low, high>>
       ELSE /\ low' = 0
            /\ high' = Len(times) - 1
            /\ ipc' = "loop"
            /\ UNCHANGED res
  /\ UNCHANGED <<target_jd, times, rows, col_offset, frac, dRa>>

\* lines 88-93: the range check and the start of the bisection
InterpEnter ==
  /\ ipc = "call"
  /\ IF Len(times) = 0
       THEN /\ res' = Raise("IndexError")
            /\ ipc' = "ret"
            /\ UNCHANGED <<low, high>>
       ELSE IF target_jd < At(times, 0) \/ target_jd > Last(times)
       THEN /\ res' = ReturnNone
            /\ ipc' = "ret"
            /\ UNCHANGED <<low, high>>
       ELSE /\ low' = 0
            /\ high' = Len(times) - 1
            /\ ipc' = "loop"
            /\ UNCHANGED res
  /\ UNCHANGED <<target_jd, times, rows, col_offset, frac, dRa>>

\* the bisection with the upper index set one past the middle
InterpBisect_PastMid ==
  /\ ipc = "loop"
  /\ high - low > 1
  /\ LET mid == (low + high) \div 2
     IN  IF At(times, mid) <= target_jd
         THEN low' = mid /\ UNCHANGED high
         ELSE high' = mid + 1 /\ UNCHANGED low
  /\ UNCHANGED <<target_jd, times, rows, col_offset, frac, dRa, res, ipc>>

\* the bisection with its two branches exchanged
InterpBisect_Swapped ==
  /\ ipc = "loop"
  /\ high - low > 1
  /\ LET mid == (low + high) \div 2
     IN  IF At(times, mid) <= target_jd
         THEN high' = mid /\ UNCHANGED low
         ELSE low' = mid /\ UNCHANGED high
  /\ UNCHANGED <<target_jd, times, rows, col_offset, frac, dRa, res, ipc>>

\* lines 95-100: one iteration of the bisection
InterpBisect ==
  /\ ipc = "loop"
  /\ high - low > 1
  /\ LET mid == (low + high) \div 2
     IN  IF At(times, mid) <= target_jd
         THEN low' = mid /\ UNCHANGED high
         ELSE high' = mid /\ UNCHANGED low
  /\ UNCHANGED <<target_jd, times, rows, col_offset, frac, dRa, res, ipc>>

\* the interpolation with the right ascension of the upper row unwrapped
\* in the row itself
InterpCompute_InPlace ==
  /\ ipc = "loop"
  /\ ~(high - low > 1)
  /\ LET t1 == At(times, low)
         t2 == At(times, high)
         den == FSub(t2, t1)
         row1 == At(rows, low)
         row2 == At(rows, high)
     IN  IF den = 0
         THEN /\ res' = Raise("ZeroDivisionError")
              /\ UNCHANGED <<frac, dRa, rows>>
         ELSE IF Len(row1) <= col_offset + 2 \/ Len(row2) <= col_offset + 2
         THEN /\ res' = Raise("IndexError")
              /\ frac' = FDiv(FSub(target_jd, t1), den)
              /\ UNCHANGED <<dRa, rows>>
         ELSE /\ frac' = FDiv(FSub(target_jd, t1), den)
              /\ dRa' = WrapDelta(At(row1, col_offset), At(row2, col_offset))
              /\ rows' = [rows EXCEPT ![high + 1][col_offset + 1] =
                                         FAdd(At(row1, col_offset), dRa')]
              /\ res' = [kind |-> "value",
                         ra |-> InterpRa(At(row1, col_offset), dRa', frac'),
                         dec |-> Lerp(At(row1, col_offset + 1), At(row2, col_offset + 1), frac'),
                         dist |-> Lerp(At(row1, col_offset + 2), At(row2, col_offset + 2), frac')]
  /\ ipc' = "ret"
  /\ UNCHANGED <<target_jd, times, col_offset, low, high>>

\* lines 103-125: the interval is found; interpolate the three columns
InterpCompute ==
  /\ ipc = "loop"
  /\ ~(high - low > 1)
  /\ LET t1 == At(times, low)
         t2 == At(times, high)
         den == FSub(t2, t1)
         row1 == At(rows, low)
         row2 == At(rows, high)
     IN  IF den = 0
         THEN /\ res' = Raise("ZeroDivisionError")
              /\ UNCHANGED <<frac, dRa>>
         ELSE IF Len(row1) <= col_offset + 2 \/ Len(row2) <= col_offset + 2
         THEN /\ res' = Raise("IndexError")
              /\ frac' = FDiv(FSub(target_jd, t1), den)
              /\ UNCHANGED dRa
         ELSE /\ frac' = FDiv(FSub(target_jd, t1), den)
              /\ dRa' = WrapDelta(At(row1, col_offset), At(row2, col_offset))
              /\ res' = [kind |-> "value",
                         ra |-> InterpRa(At(row1, col_offset), dRa', frac'),
                         dec |-> Lerp(At(row1, col_offset + 1), At(row2, col_offset + 1), frac'),
                         dist |-> Lerp(At(row1, col_offset + 2), At(row2, col_offset + 2), frac')]
  /\ ipc' = "ret"
  /\ UNCHANGED <<target_jd, times, rows, col_offset, low, high>>

\* ------------------------------------------------ the two table layouts
\* generatePlanetsEphemeris.py line 12-17
GEN_BODIES == <<"Sun", "Mercury", "Venus", "Mars", "Jupiter", "Saturn",
                "Uranus", "Neptune", "Halley">>

FieldNames == <<"_RA", "_Dec", "_GeoDist", "_HelioDist", "_HelioLon", "_HelioLat">>

\* a column name is <<body, suffix>>; the first column is "JD"
JDName == <<"", "JD">>

Text(str) == [num |-> FALSE, v |-> 0, s |-> str]
Number(n) == [num |-> TRUE, v |-> n, s |-> <<"", "">>]

RECURSIVE Flatten(_)
Flatten(ss) == IF ss = <<>> THEN <<>> ELSE Head(ss) \o Flatten(Tail(ss))

\* generatePlanetsEphemeris.py lines 126-131: the header row
PlanetsHeader ==
  <<JDName>> \o Flatten([b \in 1 .. Len(GEN_BODIES) |->
                          [f \in 1 .. Len(FieldNames) |-> <<GEN_BODIES[b], FieldNames[f]>>]])

\* generateMoonEphemeris.py line 81: the header row
MoonHeader ==
  <<JDName>> \o [f \in 1 .. Len(FieldNames) |-> <<"Moon", FieldNames[f]>>]

\* generatePlanetsEphemeris.py lines 135-139: a data row is the Julian
\* Date followed by the six fields of every body, in the order of BODIES
PlanetsRow(jd, recs) == <<jd>> \o Flatten(recs)

\* generateMoonEphemeris.py line 83
MoonRow(jd, rec) == <<jd>> \o rec

\* --------------------------------- verifyEphemerisSplit.py: load_file
MOON_FILE == "ephemeris_moon.csv"
PLANETS_FILE == "ephemeris_planets.csv"

\* lines 16-27: (Name, FileSource, ColumnOffsetInFile)
BODIES ==
  << <<"Sun", PLANETS_FILE, 1>>,
     <<"Moon", MOON_FILE, 1>>,
     <<"Mercury", PLANETS_FILE, 4>>,
     <<"Venus", PLANETS_FILE, 7>>,
     <<"Mars", PLANETS_FILE, 10>>,
     <<"Jupiter", PLANETS_FILE, 13>>,
     <<"Saturn", PLANETS_FILE, 16>>,
     <<"Uranus", PLANETS_FILE, 19>>,
     <<"Neptune", PLANETS_FILE, 22>>,
     <<"Halley", PLANETS_FILE, 25>> >>

\* line 75: float(x) for every token of the line; ValueError on any one
ParsesAsFloats(line) == \A i \in 1 .. Len(line) : line[i].num
FloatsOf(line) == [i \in 1 .. Len(line) |-> line[i].v]

\* line 76: the Julian Date column is column 0 of the rows
TimesOf(rs) == [i \in 1 .. Len(rs) |-> At(rs[i], 0)]

\* lines 71-79: the rows of the data lines, in order
RECURSIVE ReadRows(_)
ReadRows(lines) ==
  IF lines = <<>> THEN <<>>
  ELSE IF Head(lines) = <<>> THEN ReadRows(Tail(lines))
  ELSE IF ParsesAsFloats(Head(lines))
       THEN <<FloatsOf(Head(lines))>> \o ReadRows(Tail(lines))
       ELSE ReadRows(Tail(lines))

\* lines 64-83
load_file(file) ==
  IF ~file.exists
  THEN [kind |-> "None", times |-> <<>>, rows |-> <<>>]
  ELSE IF file.lines = <<>>
  THEN [kind |-> "StopIteration", times |-> <<>>, rows |-> <<>>]
  ELSE LET data_rows == ReadRows(Tail(file.lines))
       IN  [kind |-> "ok", times |-> TimesOf(data_rows), rows |-> data_rows]

\* line 81: the line load_file prints when the file is not found
ErrorLine(filename) ==
  [name |-> filename, text |-> "[ERROR] Could not find file", ra |-> 0, dec |-> 0, dist |-> 0]

\* ------------------------------------- verifyEphemerisSplit.py: main
\* lines 134-136
LoadMoon ==
  /\ pc = "load_moon"
  /\ LET r == load_file(moon_file)
     IN  /\ moon_times' = r.times
         /\ moon_rows' = r.rows
         /\ out' = IF r.kind = "None" THEN Append(out, ErrorLine(MOON_FILE)) ELSE out
         /\ pc' = IF r.kind = "StopIteration" THEN "crashed"
                  ELSE IF r.times = <<>> THEN "done"
                  ELSE "load_planets"
  /\ UNCHANGED <<moon_file, planets_file, now_jd, planet_times, planet_rows, bi>>
  /\ UNCHANGED <<interpVars, convVars, cmpVars, genVars, history>>

\* lines 138-140
LoadPlanets ==
  /\ pc = "load_planets"
  /\ LET r == load_file(planets_file)
     IN  /\ planet_times' = r.times
         /\ planet_rows' = r.rows
         /\ out' = IF r.kind = "None" THEN Append(out, ErrorLine(PLANETS_FILE)) ELSE out
         /\ pc' = IF r.kind = "StopIteration" THEN "crashed"
                  ELSE IF r.times = <<>> THEN "done"
                  ELSE "bodies"
  /\ UNCHANGED <<moon_file, planets_file, now_jd, moon_times, moon_rows, bi>>
  /\ UNCHANGED <<interpVars, convVars, cmpVars, genVars, history>>

\* lines 145-149: the call of interpolate for the next body
MainCall ==
  /\ pc = "bodies"
  /\ bi < Len(BODIES)
  /\ LET body == At(BODIES, bi)
     IN  /\ target_jd' = now_jd
         /\ times' = IF body[2] = MOON_FILE THEN moon_times ELSE planet_times
         /\ rows' = IF body[2] = MOON_FILE THEN moon_rows ELSE planet_rows
         /\ col_offset' = body[3]
  /\ ipc' = "call"
  /\ pc' = "in_call"
  /\ UNCHANGED <<low, high, frac, dRa, res>>
  /\ UNCHANGED <<moon_file, planets_file, now_jd, moon_times, moon_rows,
                 planet_times, planet_rows, bi, out>>
  /\ UNCHANGED <<convVars, cmpVars, genVars, history>>

\* lines 151-157: the line printed for the body; an exception ends main
MainPrint ==
  /\ pc = "in_call"
  /\ ipc = "ret"
  /\ IF res.kind \in {"ZeroDivisionError", "IndexError"}
     THEN /\ pc' = "crashed"
          /\ UNCHANGED <<bi, out>>
     ELSE /\ out' = Append(out, IF res.kind = "value"
                                 THEN [name |-> At(BODIES, bi)[1], text |-> "value",
                                       ra |-> res.ra, dec |-> res.dec, dist |-> res.dist]
                                 ELSE [name |-> At(BODIES, bi)[1], text |-> "[Out of Range]",
                                       ra |-> 0, dec |-> 0, dist |-> 0])
          /\ bi' = bi + 1
          /\ pc' = IF bi + 1 < Len(BODIES) THEN "bodies" ELSE "done"
  /\ ipc' = "idle"
  /\ UNCHANGED <<target_jd, times, rows, col_offset, low, high, frac, dRa, res>>
  /\ UNCHANGED <<moon_file, planets_file, now_jd, moon_times, moon_rows,
                 planet_times, planet_rows>>
  /\ UNCHANGED <<convVars, cmpVars, genVars, history>>

\* ------------------------------------- convertEphemeris.py
\* lines 49 and 53: (filename, output_name, num_data_cols) of the two calls
CONVERSIONS == << <<PLANETS_FILE, "ephemeris_planets.bin", 54>>,
                  <<MOON_FILE, "ephemeris_moon.bin", 6>> >>

RECURSIVE Log2Floor(_)
Log2Floor(m) == IF m < 2 THEN 0 ELSE 1 + Log2Floor(m \div 2)

\* byte k (0 the lowest) of the 52 fraction bits of a double whose leading
\* bit is bit e2 of the integer m and whose other bits are f = m - 2^e2
FractionByte(f, e2, k) ==
  IF 52 - e2 - 8 * k >= 8 THEN 0
  ELSE IF 52 - e2 - 8 * k >= 0 THEN ((f % 256) * Pow2(52 - e2 - 8 * k)) % 256
  ELSE (f \div Pow2(8 * k + e2 - 52)) % 256

\* the four highest fraction bits
FractionTop(f, e2) == IF e2 <= 4 THEN f * Pow2(4 - e2) ELSE f \div Pow2(e2 - 4)

\* the eight bytes, lowest first, of the double with sign bit sign,
\* exponent field biased and fraction bits f below the leading bit e2
DoubleBytes(sign, biased, f, e2) ==
  << FractionByte(f, e2, 0), FractionByte(f, e2, 1), FractionByte(f, e2, 2),
     FractionByte(f, e2, 3), FractionByte(f, e2, 4), FractionByte(f, e2, 5),
     (biased % 16) * 16 + FractionTop(f, e2),
     sign * 128 + biased \div 16 >>

PackMagnitude(sign, m, e2) == DoubleBytes(sign, 1023 + e2 - FracBits, m - Pow2(e2), e2)

\* struct.pack("<d", v) of line 40: IEEE-754 binary64, little endian
PackDouble(v) ==
  IF v = 0 THEN <<0, 0, 0, 0, 0, 0, 0, 0>>
  ELSE PackMagnitude(IF v < 0 THEN 1 ELSE 0, Abs(v), Log2Floor(Abs(v)))

\* the row packed without its last column
PackRow_DropsLast(row) == Flatten([c \in 1 .. Len(row) - 1 |-> PackDouble(row[c])])

\* struct.pack(fmt, *row) of lines 35 and 40
PackRow(row) == Flatten([c \in 1 .. Len(row) |-> PackDouble(row[c])])

RECURSIVE NonBlank(_)
NonBlank(lines) ==
  IF lines = <<>> THEN <<>>
  ELSE IF Head(lines) = <<>> THEN NonBlank(Tail(lines))
  ELSE <<FloatsOf(Head(lines))>> \o NonBlank(Tail(lines))

\* pd.read_csv of line 18 on a table of numbers: the first line names the
\* columns, blank lines are skipped, every other line is a row
read_csv(file) == NonBlank(Tail(file.lines))

NoFile == [exists |-> FALSE, bytes |-> <<>>]
NewFile == [exists |-> TRUE, bytes |-> <<>>]

\* lines 13-37: read the CSV, open the output for writing
ConvertOpen ==
  /\ cvpc = "call"
  /\ conv_call < Len(CONVERSIONS)
  /\ LET file == IF At(CONVERSIONS, conv_call)[1] = MOON_FILE THEN moon_file ELSE planets_file
     IN  IF ~file.exists
         THEN /\ conv_call' = conv_call + 1
              /\ cvpc' = IF conv_call + 1 < Len(CONVERSIONS) THEN "call" ELSE "done"
              /\ UNCHANGED <<df, count, bin_planets, bin_moon>>
         ELSE IF file.lines = <<>>
         THEN /\ cvpc' = "crashed"
              /\ UNCHANGED <<conv_call, df, count, bin_planets, bin_moon>>
         ELSE /\ df' = read_csv(file)
              /\ count' = 0
              /\ IF At(CONVERSIONS, conv_call)[1] = MOON_FILE
                 THEN bin_moon' = NewFile /\ UNCHANGED bin_planets
                 ELSE bin_planets' = NewFile /\ UNCHANGED bin_moon
              /\ cvpc' = "rows"
              /\ UNCHANGED conv_call
  /\ UNCHANGED decoded
  /\ UNCHANGED <<interpVars, mainVars, cmpVars, genVars, history>>

\* lines 38-41: one row packed and written; struct.error when the row
\* does not have expected_cols values
ConvertRow ==
  /\ cvpc = "rows"
  /\ count < Len(df)
  /\ IF Len(df[count + 1]) # 1 + At(CONVERSIONS, conv_call)[3]
     THEN /\ cvpc' = "crashed"
          /\ UNCHANGED <<count, bin_planets, bin_moon>>
     ELSE /\ IF At(CONVERSIONS, conv_call)[1] = MOON_FILE
             THEN /\ bin_moon' = [bin_moon EXCEPT !.bytes = @ \o PackRow(df[count + 1])]
                  /\ UNCHANGED bin_planets
             ELSE /\ bin_planets' = [bin_planets EXCEPT !.bytes = @ \o PackRow(df[count + 1])]
                  /\ UNCHANGED bin_moon
          /\ count' = count + 1
          /\ UNCHANGED cvpc
  /\ UNCHANGED <<conv_call, df, decoded>>
  /\ UNCHANGED <<interpVars, mainVars, cmpVars, genVars, history>>

\* line 43 and the return to __main__
ConvertEnd ==
  /\ cvpc = "rows"
  /\ count = Len(df)
  /\ conv_call' = conv_call + 1
  /\ cvpc' = IF conv_call + 1 < Len(CONVERSIONS) THEN "call" ELSE "done"
  /\ UNCHANGED <<df, count, bin_planets, bin_moon, decoded>>
  /\ UNCHANGED <<interpVars, mainVars, cmpVars, genVars, history>>

\* ------------------------------------------- the reader of the binary
\* the part x * 2^s of a bit field, bits below the point dropped
FieldPart(x, s) ==
  IF s >= 0 THEN x * Pow2(s) ELSE IF s <= -8 THEN 0 ELSE x \div Pow2(-s)

\* the integer 2^t + (the highest t of the 52 fraction bits)
Significand(b, t) ==
  Pow2(t) + FieldPart(b[7] % 16, t - 4) + FieldPart(b[6], t - 12)
          + FieldPart(b[5], t - 20) + FieldPart(b[4], t - 28)
          + FieldPart(b[3], t - 36) + FieldPart(b[2], t - 44)
          + FieldPart(b[1], t - 52)

ExponentField(b) == (b[8] % 128) * 16 + b[7] \div 16

\* eight bytes read as a little-endian double
UnpackDouble(b) ==
  IF b = <<0, 0, 0, 0, 0, 0, 0, 0>> THEN 0
  ELSE IF b[8] >= 128 THEN -Significand(b, ExponentField(b) - 1023 + FracBits)
  ELSE Significand(b, ExponentField(b) - 1023 + FracBits)

\* decode: total_bytes / (W * 8) records of W doubles, TruncatedRecord
\* when the length is not a multiple of the record size
decode(bytes, W) ==
  IF Len(bytes) % (W * 8) # 0
  THEN [kind |-> "TruncatedRecord", rows |-> <<>>]
  ELSE [kind |-> "ok",
        rows |-> [i \in 1 .. Len(bytes) \div (W * 8) |->
                   [c \in 1 .. W |->
                     UnpackDouble(SubSeq(bytes, ((i - 1) * W + c - 1) * 8 + 1,
                                                ((i - 1) * W + c - 1) * 8 + 8))]]]

NotRead == [kind |-> "none", rows |-> <<>>]

ReadFile(f, W) == IF f.exists THEN decode(f.bytes, W) ELSE NotRead

\* the consumer reads both binaries with the widths of the two schemas
ReadBinaries ==
  /\ cvpc = "done"
  /\ decoded' = [planets |-> ReadFile(bin_planets, Len(PlanetsHeader)),
                 moon |-> ReadFile(bin_moon, Len(MoonHeader))]
  /\ cvpc' = "read"
  /\ UNCHANGED <<conv_call, df, count, bin_planets, bin_moon>>
  /\ UNCHANGED <<interpVars, mainVars, cmpVars, genVars, history>>

ConvOff ==
  /\ conv_call = 0 /\ df = <<>> /\ count = 0
  /\ bin_planets = NoFile /\ bin_moon = NoFile
  /\ decoded = [planets |-> NotRead, moon |-> NotRead]
  /\ cvpc = "off"

\* ------------------------------------- compare_with_horizons.py
\* lines 236-241
angle_diff(a, b) ==
  IF FMod(FSub(a, b), Deg(360)) > Deg(180)
  THEN FSub(FMod(FSub(a, b), Deg(360)), Deg(360))
  ELSE FMod(FSub(a, b), Deg(360))

\* lines 328-345: the calls of compare_value, <<label, tolerance>>, and
\* whether the label holds "lon", "ra" or "az" (the test of line 253)
COMPARISONS ==
  << <<"RA (geocentric)", Num(1, 100), TRUE>>,
     <<"Dec (geocentric)", Num(1, 100), FALSE>>,
     <<"Azimuth", Num(5, 100), TRUE>>,
     <<"Altitude", Num(5, 100), FALSE>>,
     <<"Distance (AU)", Num(1, 10000), FALSE>>,
     <<"Ecliptic Lon", Num(1, 100), TRUE>>,
     <<"Ecliptic Lat", Num(1, 100), FALSE>> >>

None == [some |-> FALSE, v |-> 0]
Some(x) == [some |-> TRUE, v |-> x]

\* lines 244-259
CompareValue ==
  /\ cmpc = "call"
  /\ IF ~orrery_val.some \/ ~horizons_val.some
     THEN UNCHANGED <<diff, flag>>
     ELSE /\ diff' = IF At(COMPARISONS, cmp_call)[3]
                      THEN angle_diff(orrery_val.v, horizons_val.v)
                      ELSE FSub(orrery_val.v, horizons_val.v)
          /\ flag' = (Abs(diff') > At(COMPARISONS, cmp_call)[2])
  /\ cmpc' = "ret"
  /\ UNCHANGED <<cmp_call, orrery_val, horizons_val>>
  /\ UNCHANGED <<interpVars, mainVars, convVars, genVars, history>>

CmpOff ==
  /\ cmp_call = 0 /\ orrery_val = None /\ horizons_val = None
  /\ diff = 0 /\ flag = FALSE /\ cmpc = "off"

\* ------------------------------------------------------------ inputs
\* Sample values <<RA, Dec, Dist>> a row may carry.  Julian Dates are
\* counted in days from JD 2459000.0.
Samples ==
  << <<Deg(0), Deg(0), Deg(1)>>,
     <<Deg(1), -Num(641, 16), Num(1, 16)>>,
     <<Deg(10), Deg(5), Deg(1)>>,
     <<Deg(12), Num(11, 2), Num(5, 4)>>,
     <<Deg(179), Deg(10), Deg(30)>>,
     <<Deg(180), Deg(20), Num(1, 2)>>,
     <<Deg(181), Deg(40), Deg(2)>>,
     <<Deg(350), -Deg(90), Deg(5)>>,
     <<Deg(359), Deg(90), Deg(40)>>,
     <<Deg(370), Num(375, 16), Num(15, 16)>>,
     <<Num(719, 2), -Num(47, 2), Num(19, 2)>>,
     <<Num(1, 16), Num(1, 16), Deg(100)>> >>

SampleIds == 1 .. Len(Samples)

JDVals == {Deg(0), Deg(1), Deg(2), Deg(3)}
TargetVals == JDVals \cup {-Deg(1), Num(1, 2), Num(5, 2), Deg(4)}

\* the row <<JD, RA, Dec, Dist>> of sample k
NarrowRow(jd, k) == <<jd>> \o Samples[k]

\* every pair of samples in two rows; a run of consecutive samples in more
SampleRuns(n) ==
  IF n = 2 THEN [1 .. 2 -> SampleIds]
  ELSE {[i \in 1 .. n |-> ((k + i - 2) % Len(Samples)) + 1] : k \in SampleIds}

Datasets ==
  UNION {{[i \in 1 .. n |-> NarrowRow(ts[i], ks[i])] :
            ts \in [1 .. n -> JDVals], ks \in SampleRuns(n)} : n \in 1 .. MaxRows}

\* ------------------------------------------------------ the two files
MaxLines == 3

\* sample i of a list of samples, going round
SampleOf(ss, i) == ss[(i % Len(ss)) + 1]

\* heliocentric distance, longitude and latitude taken from a sample
Helio(h) == <<h[3], h[1], h[2]>>

\* the six fields of body b (1 = Sun, ...) in the sample run starting at k;
\* the Sun's heliocentric fields are zero
BodyRec(b, k) ==
  IF b = 1 THEN SampleOf(Samples, k + b - 3) \o <<0, 0, 0>>
  ELSE SampleOf(Samples, k + b - 3) \o Helio(SampleOf(Samples, k + b + 2))

\* line i of a file: Julian Date i - 1, samples that make lines 1 and 2
\* carry Mercury at RA 10, Dec 5 and RA 12, Dec 5.5
LineValues(schema, i) ==
  IF schema = "moon" THEN MoonRow(Deg(i - 1), BodyRec(1, i + 4))
  ELSE PlanetsRow(Deg(i - 1), [b \in 1 .. Len(GEN_BODIES) |-> BodyRec(b, i + 2)])

Shapes == {"good", "short", "bad", "blank"}

Tokens(vals) == [j \in 1 .. Len(vals) |-> Number(vals[j])]

Shaped(toks, shape) ==
  CASE shape = "good" -> toks
    [] shape = "short" -> SubSeq(toks, 1, 3)
    [] shape = "bad" -> [toks EXCEPT ![3] = Text(<<"", "">>)]
    [] shape = "blank" -> <<>>

FileLine(schema, i, shape) == Shaped(Tokens(LineValues(schema, i)), shape)

HeaderTokens(names) == [j \in 1 .. Len(names) |-> Text(names[j])]

HeaderLine(schema) ==
  HeaderTokens(IF schema = "moon" THEN MoonHeader ELSE PlanetsHeader)

MissingFile == [exists |-> FALSE, lines |-> <<>>]
EmptyFile == [exists |-> TRUE, lines |-> <<>>]

TableFile(schema, shapes) ==
  [exists |-> TRUE,
   lines |-> <<HeaderLine(schema)>> \o [i \in 1 .. Len(shapes) |-> FileLine(schema, i, shapes[i])]]

PlanetsFiles ==
  {MissingFile, EmptyFile} \cup
  UNION {{TableFile("planets", sh) : sh \in [1 .. n -> Shapes]} : n \in 0 .. MaxLines}

MoonFiles ==
  {MissingFile, TableFile("moon", <<>>), TableFile("moon", <<"good", "good">>),
   TableFile("moon", <<"good", "short", "good">>)}

NowVals == {Num(1, 2), Deg(0), Deg(5)}

\* ------------------------------------- generatePlanetsEphemeris.py
\* The text of a Julian Date as Horizons sends it: the number float(jd)
\* reads, and how many zeros are written after its last digit; two texts
\* of the same number with different zeros are different strings.
JDText(v, pad) == [num |-> TRUE, v |-> v, pad |-> pad]
NotANumber == [num |-> FALSE, v |-> 0, pad |-> 0]

\* lines 79 and 91: the fewest parts a data line may have
MinParts(body_name) == IF body_name = "Sun" THEN 6 ELSE 10

\* lines 81-98: [RA, Dec, GeoDist, HelioDist, HelioLon, HelioLat] of a data
\* line; the heliocentric fields of the Sun are set to zero
LineFields(body_name, line) ==
  IF body_name = "Sun" THEN SubSeq(line.vals, 1, 3) \o <<0, 0, 0>> ELSE line.vals

\* line 102: parsed_data[jd] = [...]; a dict keeps its keys in the order of
\* their first insertion, the keys being strings
RECURSIVE DictSet(_, _, _)
DictSet(d, key, val) ==
  IF d = <<>> THEN << [jd |-> key, vals |-> val] >>
  ELSE IF Head(d).jd = key THEN << [jd |-> key, vals |-> val] >> \o Tail(d)
  ELSE <<Head(d)>> \o DictSet(Tail(d), key, val)

DictKeys(d) == [i \in 1 .. Len(d) |-> d[i].jd]
DictHas(d, key) == \E i \in 1 .. Len(d) : d[i].jd = key
DictGet(d, key) == d[CHOOSE i \in 1 .. Len(d) : d[i].jd = key].vals

\* lines 69-107: a line is skipped when its Julian Date or one of its
\* fields is not a number, or when it has too few parts
RECURSIVE ParseLines(_, _, _)
ParseLines(body_name, lines, parsed_data) ==
  IF lines = <<>> THEN parsed_data
  ELSE IF \/ ~Head(lines).jd.num
          \/ Head(lines).nparts < MinParts(body_name)
          \/ ~Head(lines).ok
       THEN ParseLines(body_name, Tail(lines), parsed_data)
       ELSE ParseLines(body_name, Tail(lines),
                       DictSet(parsed_data, Head(lines).jd, LineFields(body_name, Head(lines))))

\* lines 37-109
fetch_body_data(body_name, lines) == ParseLines(body_name, lines, <<>>)

\* line 121: sorted(keys, key=float); the sort is stable
RECURSIVE InsertByFloat(_, _)
InsertByFloat(sorted, key) ==
  IF sorted = <<>> THEN <<key>>
  ELSE IF key.v < Head(sorted).v THEN <<key>> \o sorted
  ELSE <<Head(sorted)>> \o InsertByFloat(Tail(sorted), key)

RECURSIVE SortedByFloat(_)
SortedByFloat(keys) ==
  IF keys = <<>> THEN <<>>
  ELSE InsertByFloat(SortedByFloat(SubSeq(keys, 1, Len(keys) - 1)), Last(keys))

\* lines 113-119: the next body is fetched; main returns on an empty result
GenFetch ==
  /\ gpc = "fetch"
  /\ gb < Len(GEN_BODIES)
  /\ LET data == fetch_body_data(GEN_BODIES[gb + 1], responses[gb + 1])
     IN  IF data = <<>>
         THEN /\ gpc' = "failed"
              /\ UNCHANGED <<gb, all_data>>
         ELSE /\ all_data' = Append(all_data, data)
              /\ gb' = gb + 1
              /\ gpc' = IF gb + 1 < Len(GEN_BODIES) THEN "fetch" ELSE "merge"
  /\ UNCHANGED <<responses, master_jds, gi>>
  /\ UNCHANGED <<interpVars, mainVars, convVars, cmpVars, history>>

\* lines 121-132: the keys of the Sun sorted, the file opened, the header
GenOpen ==
  /\ gpc = "merge"
  /\ master_jds' = SortedByFloat(DictKeys(all_data[1]))
  /\ planets_file' = [exists |-> TRUE, lines |-> <<HeaderTokens(PlanetsHeader)>>]
  /\ gi' = 0
  /\ gpc' = "rows"
  /\ UNCHANGED <<responses, gb, all_data>>
  /\ UNCHANGED <<moon_file, now_jd, moon_times, moon_rows, planet_times, planet_rows,
                 bi, out, pc>>
  /\ UNCHANGED <<interpVars, convVars, cmpVars, history>>

\* lines 134-139: the row of the next Julian Date, written when every body
\* has it
GenRow ==
  /\ gpc = "rows"
  /\ gi < Len(master_jds)
  /\ LET jd == At(master_jds, gi)
     IN  IF \A b \in 1 .. Len(all_data) : DictHas(all_data[b], jd)
         THEN planets_file' =
                [planets_file EXCEPT !.lines =
                   Append(@, Tokens(PlanetsRow(jd.v, [b \in 1 .. Len(all_data) |->
                                                        DictGet(all_data[b], jd)])))]
         ELSE UNCHANGED planets_file
  /\ gi' = gi + 1
  /\ UNCHANGED <<responses, gb, all_data, master_jds, gpc>>
  /\ UNCHANGED <<moon_file, now_jd, moon_times, moon_rows, planet_times, planet_rows,
                 bi, out, pc>>
  /\ UNCHANGED <<interpVars, convVars, cmpVars, history>>

\* line 140: the file is closed
GenDone ==
  /\ gpc = "rows"
  /\ gi = Len(master_jds)
  /\ gpc' = "done"
  /\ UNCHANGED <<responses, gb, all_data, master_jds, gi>>
  /\ UNCHANGED <<interpVars, mainVars, convVars, cmpVars, history>>

GenOff ==
  /\ responses = <<>> /\ gb = 0 /\ all_data = <<>> /\ master_jds = <<>>
  /\ gi = 0 /\ gpc = "off"

MainOff ==
  /\ moon_file = MissingFile /\ planets_file = MissingFile
  /\ now_jd = 0
  /\ moon_times = <<>> /\ moon_rows = <<>>
  /\ planet_times = <<>> /\ planet_rows = <<>>
  /\ bi = 0 /\ out = <<>> /\ pc = "off"

InterpOff ==
  /\ target_jd = 0 /\ times = <<>> /\ rows = <<>> /\ col_offset = 0
  /\ low = 0 /\ high = 0 /\ frac = 0 /\ dRa = 0
  /\ res = NoValue /\ ipc = "idle"
  /\ history = <<>>

Init ==
  /\ moon_file \in MoonFiles
  /\ planets_file \in PlanetsFiles
  /\ now_jd \in NowVals
  /\ moon_times = <<>> /\ moon_rows = <<>>
  /\ planet_times = <<>> /\ planet_rows = <<>>
  /\ bi = 0 /\ out = <<>> /\ pc = "load_moon"
  /\ InterpOff
  /\ ConvOff
  /\ CmpOff
  /\ GenOff

Next ==
  \/ LoadMoon
  \/ LoadPlanets
  \/ MainCall
  \/ InterpEnter /\ pc = "in_call" /\ UNCHANGED <<mainVars, convVars, cmpVars, genVars, history>>
  \/ InterpBisect /\ pc = "in_call" /\ UNCHANGED <<mainVars, convVars, cmpVars, genVars, history>>
  \/ InterpCompute /\ pc = "in_call" /\ UNCHANGED <<mainVars, convVars, cmpVars, genVars, history>>
  \/ MainPrint

Spec == Init /\ [][Next]_vars

\* ------------------------------------------- interpolate on any dataset
InitInterp ==
  /\ rows \in Datasets
  /\ times = TimesOf(rows)
  /\ target_jd \in TargetVals
  /\ col_offset = 1
  /\ low = 0 /\ high = 0 /\ frac = 0 /\ dRa = 0
  /\ res = NoValue
  /\ ipc = "call"
  /\ history = <<>>
  /\ MainOff
  /\ ConvOff
  /\ CmpOff
  /\ GenOff

NextInterp ==
  \/ InterpEnter /\ UNCHANGED <<mainVars, convVars, cmpVars, genVars, history>>
  \/ InterpBisect /\ UNCHANGED <<mainVars, convVars, cmpVars, genVars, history>>
  \/ InterpCompute /\ UNCHANGED <<mainVars, convVars, cmpVars, genVars, history>>

SpecInterp == InitInterp /\ [][NextInterp]_vars

\* ------------------------------------------------ the converter alone
ConvShapes == {"good", "blank"}

ConvFiles(schema) ==
  {MissingFile} \cup
  UNION {{TableFile(schema, sh) : sh \in [1 .. n -> ConvShapes]} : n \in 0 .. MaxLines}

InitConvert ==
  /\ planets_file \in ConvFiles("planets") \cup {EmptyFile, TableFile("moon", <<"good">>)}
  /\ moon_file \in ConvFiles("moon")
  /\ now_jd = 0
  /\ moon_times = <<>> /\ moon_rows = <<>>
  /\ planet_times = <<>> /\ planet_rows = <<>>
  /\ bi = 0 /\ out = <<>> /\ pc = "off"
  /\ InterpOff
  /\ conv_call = 0 /\ df = <<>> /\ count = 0
  /\ bin_planets = NoFile /\ bin_moon = NoFile
  /\ decoded = [planets |-> NotRead, moon |-> NotRead]
  /\ cvpc = "call"
  /\ CmpOff
  /\ GenOff

NextConvert == ConvertOpen \/ ConvertRow \/ ConvertEnd \/ ReadBinaries

SpecConvert == InitConvert /\ [][NextConvert]_vars

\* --------------------------------------------- the comparison alone
CompareVals == {None} \cup {Some(Samples[k][1]) : k \in SampleIds}

InitCompare ==
  /\ cmp_call \in 0 .. Len(COMPARISONS) - 1
  /\ orrery_val \in CompareVals
  /\ horizons_val \in CompareVals
  /\ diff = 0 /\ flag = FALSE /\ cmpc = "call"
  /\ InterpOff
  /\ MainOff
  /\ ConvOff
  /\ GenOff

NextCompare == CompareValue

SpecCompare == InitCompare /\ [][NextCompare]_vars

\* ---------------------------------------------- the generator alone
\* the texts a Julian Date may come as: two dates, each written with or
\* without one more zero, and a text that is not a number
GenJDTexts ==
  {JDText(Deg(j), z) : j \in 0 .. 1, z \in 0 .. 1} \cup {NotANumber}

GenJDRuns == UNION {[1 .. n -> GenJDTexts] : n \in 0 .. MaxLines}

\* data line i of body b: one part more than the least, every field a number
GenLine(b, jd, i) ==
  [jd |-> jd, nparts |-> MinParts(GEN_BODIES[b]) + 1, ok |-> TRUE, vals |-> BodyRec(b, i)]

Faults == {"none", "missing", "short", "bad"}

\* the line as one body receives it when the line is hit by a fault
Faulty(b, line, fault) ==
  CASE fault = "none" -> <<line>>
    [] fault = "missing" -> <<>>
    [] fault = "short" -> << [line EXCEPT !.nparts = MinParts(GEN_BODIES[b]) - 1] >>
    [] fault = "bad" -> << [line EXCEPT !.ok = FALSE] >>

\* every body is sent the same Julian Dates; line at of body odd (the
\* Sun, Mercury or Halley) is hit
GenResponses(jds, odd, fault, at) ==
  [b \in 1 .. Len(GEN_BODIES) |->
     Flatten([i \in 1 .. Len(jds) |->
                IF b = odd /\ i = at THEN Faulty(b, GenLine(b, jds[i], i), fault)
                ELSE <<GenLine(b, jds[i], i)>>])]

InitGen ==
  /\ responses \in {GenResponses(jds, odd, fault, at) :
                      jds \in GenJDRuns, odd \in {1, 2, Len(GEN_BODIES)},
                      fault \in Faults, at \in 1 .. MaxLines}
  /\ gb = 0 /\ all_data = <<>> /\ master_jds = <<>> /\ gi = 0
  /\ gpc = "fetch"
  /\ MainOff
  /\ InterpOff
  /\ ConvOff
  /\ CmpOff

NextGen == GenFetch \/ GenOpen \/ GenRow \/ GenDone

SpecGen == InitGen /\ [][NextGen]_vars

\* ------------------------------------ a run of queries on one dataset
MaxCalls == 3

QueryJDs == {Deg(0), Deg(1), Deg(2)}
QueryTargets == {-Deg(1), Num(1, 2), Deg(1)}
QueryCols == {0, 1}

\* tables of 1 to MaxRows rows, sorted or not, with samples 1, 2, 3 or
\* 11, 12, 1 (a right ascension that passes 360)
QueryDatasets ==
  UNION {{[i \in 1 .. n |-> NarrowRow(ts[i], ((k + i - 2) % Len(Samples)) + 1)] :
            ts \in [1 .. n -> QueryJDs], k \in {1, 11}} : n \in 1 .. MaxRows}

\* lines 147-149: a caller passes its lists, a Julian Date and a column;
\* the locals of the call are new
QueryCall ==
  /\ ipc = "idle"
  /\ Len(history) < MaxCalls
  /\ target_jd' \in QueryTargets
  /\ col_offset' \in QueryCols
  /\ low' = 0 /\ high' = 0 /\ frac' = 0 /\ dRa' = 0
  /\ res' = NoValue
  /\ ipc' = "call"
  /\ UNCHANGED <<times, rows, history>>
  /\ UNCHANGED <<mainVars, convVars, cmpVars, genVars>>

\* lines 147-151: the caller takes what the call returned
QueryReturn ==
  /\ ipc = "ret"
  /\ history' = Append(history, [target_jd |-> target_jd, col_offset |-> col_offset,
                                 res |-> res])
  /\ ipc' = "idle"
  /\ UNCHANGED <<target_jd, times, rows, col_offset, low, high, frac, dRa, res>>
  /\ UNCHANGED <<mainVars, convVars, cmpVars, genVars>>

InitQueries ==
  /\ rows \in QueryDatasets
  /\ times = TimesOf(rows)
  /\ target_jd = 0 /\ col_offset = 0
  /\ low = 0 /\ high = 0 /\ frac = 0 /\ dRa = 0
  /\ res = NoValue
  /\ ipc = "idle"
  /\ history = <<>>
  /\ MainOff
  /\ ConvOff
  /\ CmpOff
  /\ GenOff

NextQueries ==
  \/ QueryCall
  \/ InterpEnter /\ UNCHANGED <<mainVars, convVars, cmpVars, genVars, history>>
  \/ InterpBisect /\ UNCHANGED <<mainVars, convVars, cmpVars, genVars, history>>
  \/ InterpCompute /\ UNCHANGED <<mainVars, convVars, cmpVars, genVars, history>>
  \/ QueryReturn

SpecQueries == InitQueries /\ [][NextQueries]_vars

\* ------------------------------------- the bisection on longer tables
MaxSearchRows == 5

\* tables of 1 to MaxSearchRows rows with any Julian Dates, sorted or not
SearchDatasets ==
  UNION {{[i \in 1 .. n |-> NarrowRow(ts[i], 1)] : ts \in [1 .. n -> JDVals]} :
           n \in 1 .. MaxSearchRows}

InitSearch ==
  /\ rows \in SearchDatasets
  /\ times = TimesOf(rows)
  /\ target_jd \in TargetVals
  /\ col_offset = 1
  /\ low = 0 /\ high = 0 /\ frac = 0 /\ dRa = 0
  /\ res = NoValue
  /\ ipc = "call"
  /\ history = <<>>
  /\ MainOff
  /\ ConvOff
  /\ CmpOff
  /\ GenOff

\* the call runs on: a step that can be taken is taken
SpecSearch == InitSearch /\ [][NextInterp]_vars /\ WF_vars(NextInterp)

\* ------------------------------------------------------------ properties
StrictlyAscending(ts) == \A i \in 1 .. Len(ts) - 1 : ts[i] < ts[i + 1]
InRange == Len(times) >= 1 /\ At(times, 0) <= target_jd /\ target_jd <= Last(times)
SearchEnded == \/ ipc = "loop" /\ ~(high - low > 1)
               \/ ipc = "ret" /\ res.kind # "None" /\ Len(times) >= 1
Returned == ipc = "ret" /\ res.kind = "value"
Ra1 == At(At(rows, low), col_offset)
Ra2 == At(At(rows, high), col_offset)
Dec1 == At(At(rows, low), col_offset + 1)
Dec2 == At(At(rows, high), col_offset + 1)
Dist1 == At(At(rows, low), col_offset + 2)
Dist2 == At(At(rows, high), col_offset + 2)

\* C1: on strictly ascending Julian Dates, at least two rows and a target
\* inside the table, the bisection ends with high = low + 1 (or low = high
\* on an exact match) and times[low] <= target_jd <= times[high].
C1_Bracketing ==
  (Len(times) >= 2 /\ StrictlyAscending(times) /\ InRange /\ SearchEnded) =>
    /\ high = low + 1 \/ (low = high /\ At(times, low) = target_jd)
    /\ At(times, low) <= target_jd
    /\ target_jd <= At(times, high)

C1_Witness ==
  /\ Returned /\ Len(times) = 3 /\ StrictlyAscending(times)
  /\ low = 1 /\ high = 2
  /\ At(times, low) < target_jd /\ target_jd < At(times, high)

\* C2: on a non-empty dataset the call returns None exactly when the target
\* is before the first or after the last Julian Date; a None carries no
\* interpolated value.
C2_OutOfRange ==
  (ipc = "ret" /\ Len(times) >= 1) =>
    /\ (res.kind = "None") <=> (target_jd < At(times, 0) \/ target_jd > Last(times))
    /\ res.kind = "None" => res = ReturnNone

C2_Witness ==
  /\ ipc = "ret" /\ Len(times) >= 2 /\ target_jd > Last(times) /\ res.kind = "None"

\* C3: when the target equals the Julian Date of row i, the bracket is
\* low = high = i and the call returns the fields of row i as they are.
C3_ExactMatch ==
  \A i \in 0 .. Len(times) - 1 :
    (ipc = "ret" /\ StrictlyAscending(times) /\ InRange /\ At(times, i) = target_jd) =>
      /\ low = i /\ high = i
      /\ res = [kind |-> "value", ra |-> At(At(rows, i), col_offset),
                dec |-> At(At(rows, i), col_offset + 1),
                dist |-> At(At(rows, i), col_offset + 2)]

\* C4: the right ascension moves along the shortest arc: the difference
\* used is at most 180 degrees in size and is the difference of the two
\* values, or that difference moved by one turn; 359 and 1 meet at 0 half
\* way, and 350 and 370 give what 350 and 10 give.
C4_ShortestArc ==
  Returned =>
    LET d == FSub(Ra2, Ra1)
    IN  /\ Abs(dRa) <= Deg(180)
        /\ dRa \in {d, FAdd(d, Deg(360)), FSub(d, Deg(360))}
        /\ (Ra1 = Deg(359) /\ Ra2 = Deg(1) /\ frac = Num(1, 2)) => res.ra = 0
        /\ (Ra1 = Deg(350) /\ Ra2 = Deg(370)) =>
              res.ra = InterpRa(Deg(350), WrapDelta(Deg(350), Deg(10)), frac)

C4_Witness ==
  Returned /\ Ra1 = Deg(359) /\ Ra2 = Deg(1) /\ frac = Num(1, 2) /\ res.ra = 0

\* C5: the right ascension returned for an in-range query lies in [0, 360).
C5_Normalized ==
  (Returned /\ StrictlyAscending(times)) => (0 <= res.ra /\ res.ra < Deg(360))

C5_Witness ==
  /\ Returned /\ StrictlyAscending(times)
  /\ Ra1 = Deg(0) /\ Ra2 = Deg(359) /\ frac = Num(1, 2) /\ res.ra = Num(719, 2)

\* C6: declination and distance are v_low + (v_high - v_low) * frac, which
\* is v_low at frac = 0, v_high at frac = 1 and 15 for 10 and 20 at 0.5.
C6_LinearExact ==
  Returned =>
    /\ frac = 0 => (res.dec = Dec1 /\ res.dist = Dist1)
    /\ frac = Deg(1) => (res.dec = Dec2 /\ res.dist = Dist2)
    /\ (Dec1 = Deg(10) /\ Dec2 = Deg(20) /\ frac = Num(1, 2)) => res.dec = Deg(15)

\* the column (counted from 0) that the header names <<body, "_RA">>
RaColumn(header, body) ==
  CHOOSE j \in 0 .. Len(header) - 1 : At(header, j) = <<body, "_RA">>

HeaderOf(file) == IF file = MOON_FILE THEN MoonHeader ELSE PlanetsHeader

\* the index of the body among the bodies of its own table
SchemaIndex(body) ==
  IF body = "Moon" THEN 0
  ELSE (CHOOSE b \in 1 .. Len(GEN_BODIES) : GEN_BODIES[b] = body) - 1

PrintedFor(body) == {out[i] : i \in {j \in 1 .. Len(out) : out[j].name = body}}

\* C7: the planets table is 55 columns wide and the moon table 7; the
\* column the query uses for a body is 1 + 6 * (its index in its table),
\* the column the producer names <body>_RA; Mercury between the samples
\* (RA 10, Dec 5) and (RA 12, Dec 5.5), asked half way, gives RA 11 and
\* Dec 5.25.
C7_SchemaOffsets ==
  /\ Len(PlanetsHeader) = 55
  /\ Len(MoonHeader) = 7
  /\ pc = "in_call" =>
        LET body == At(BODIES, bi)
        IN  /\ col_offset = 1 + 6 * SchemaIndex(body[1])
            /\ col_offset = RaColumn(HeaderOf(body[2]), body[1])
  /\ (/\ pc = "done"
      /\ planets_file = TableFile("planets", <<"good", "good">>)
      /\ now_jd = Num(1, 2)) =>
        \A line \in PrintedFor("Mercury") :
          line.text = "value" /\ line.ra = Deg(11) /\ line.dec = Num(21, 4)

\* the rows of the data lines that are W numbers, in order
RECURSIVE WellFormedRows(_, _)
WellFormedRows(lines, W) ==
  IF lines = <<>> THEN <<>>
  ELSE IF Len(Head(lines)) = W /\ ParsesAsFloats(Head(lines))
       THEN <<FloatsOf(Head(lines))>> \o WellFormedRows(Tail(lines), W)
       ELSE WellFormedRows(Tail(lines), W)

HasShortLine(file, W) ==
  /\ file.exists /\ file.lines # <<>>
  /\ \E i \in 2 .. Len(file.lines) :
        Len(file.lines[i]) > 0 /\ Len(file.lines[i]) < W

PlanetsLoaded == pc \in {"bodies", "in_call"} \/ (pc \in {"done", "crashed"} /\ planet_times # <<>>)

\* C9: a planets table with a line of fewer than 55 tokens loads, and the
\* rows loaded are the other lines in their order, each of 55 values.
C9_ShortLineOmitted ==
  (PlanetsLoaded /\ HasShortLine(planets_file, Len(PlanetsHeader))) =>
    /\ planet_rows = WellFormedRows(Tail(planets_file.lines), Len(PlanetsHeader))
    /\ \A i \in 1 .. Len(planet_rows) : Len(planet_rows[i]) = Len(PlanetsHeader)

\* the rows a table of width W holds, when every data line is W numbers
TableRows(file, W) == WellFormedRows(Tail(file.lines), W)

IsTable(file, W) ==
  /\ file.exists /\ file.lines # <<>>
  /\ NonBlank(Tail(file.lines)) = TableRows(file, W)

\* C8: a table of N rows of W numbers is written as N records of W
\* doubles back to back, N * W * 8 bytes with nothing before them, and
\* reading total_bytes / (W * 8) records of W values gives the rows back
\* in order, value for value.
C8_RoundTrip ==
  /\ (cvpc \in {"done", "read"} /\ IsTable(planets_file, 55)) =>
        /\ bin_planets.exists
        /\ Len(bin_planets.bytes) = Len(TableRows(planets_file, 55)) * 55 * 8
        /\ \A i \in 1 .. Len(TableRows(planets_file, 55)) : \A c \in 1 .. 55 :
              SubSeq(bin_planets.bytes, ((i - 1) * 55 + c - 1) * 8 + 1, ((i - 1) * 55 + c) * 8)
                = PackDouble(TableRows(planets_file, 55)[i][c])
        /\ cvpc = "read" =>
              decoded.planets = [kind |-> "ok", rows |-> TableRows(planets_file, 55)]
  /\ (cvpc \in {"done", "read"} /\ IsTable(moon_file, 7)) =>
        /\ bin_moon.exists
        /\ Len(bin_moon.bytes) = Len(TableRows(moon_file, 7)) * 7 * 8
        /\ cvpc = "read" =>
              decoded.moon = [kind |-> "ok", rows |-> TableRows(moon_file, 7)]

C8_Witness ==
  /\ cvpc = "read"
  /\ IsTable(planets_file, 55)
  /\ Len(decoded.planets.rows) = 3
  /\ Len(bin_planets.bytes) = 3 * 55 * 8
  /\ decoded.planets.rows[1][3] = -Num(641, 16)
  /\ decoded.planets.rows[2][9] = Num(11, 2)
  /\ Len(decoded.moon.rows) = 2

IsAngle(x) == x.some /\ 0 <= x.v /\ x.v < Deg(360)

\* C10: the difference angle_diff(a, b) the comparison uses lies in
\* (-180, 180], is a - b moved by whole turns, and for angles in [0, 360)
\* equals the difference dRa that interpolate uses for v_low = b, v_high = a.
C10_SharedRule ==
  (/\ cmpc = "ret" /\ At(COMPARISONS, cmp_call)[3]
   /\ IsAngle(orrery_val) /\ IsAngle(horizons_val)) =>
    /\ -Deg(180) < diff /\ diff <= Deg(180)
    /\ diff \in {FSub(orrery_val.v, horizons_val.v),
                  FAdd(FSub(orrery_val.v, horizons_val.v), Deg(360)),
                  FSub(FSub(orrery_val.v, horizons_val.v), Deg(360))}
    /\ diff = WrapDelta(horizons_val.v, orrery_val.v)

\* the rows of the planets table the generator has written so far
WrittenRows == Tail(planets_file.lines)

\* C11: whatever the bodies' fetch results, the rows of the planets table
\* the generator writes are in strictly ascending Julian Date order, no
\* two rows share a Julian Date, every row has 55 columns, and a Julian
\* Date is written only when every one of the 9 bodies has data for it.
C11_ProducerContract ==
  gpc \in {"rows", "done"} =>
    /\ \A i \in 1 .. Len(WrittenRows) : Len(WrittenRows[i]) = 55
    /\ \A i \in 1 .. Len(WrittenRows) - 1 : WrittenRows[i][1].v < WrittenRows[i + 1][1].v
    /\ \A i \in 1 .. Len(WrittenRows) : \A b \in 1 .. Len(GEN_BODIES) :
          \E k \in 1 .. Len(all_data[b]) : all_data[b][k].jd.v = WrittenRows[i][1].v

\* a table with a header and no line of W numbers after it
EmptySource(file, W) ==
  file.exists /\ file.lines # <<>> /\ WellFormedRows(Tail(file.lines), W) = <<>>

MoonLoadDone == pc # "load_moon"
PlanetsLoadDone == pc \notin {"load_moon", "load_planets"} /\ moon_times # <<>>

\* the load of the file ended in an error: its error line, or an exception
LoadFailed(filename) ==
  \/ pc = "crashed" /\ out = <<>>
  \/ \E i \in 1 .. Len(out) : out[i] = ErrorLine(filename)

NoQueryRun ==
  /\ pc \notin {"bodies", "in_call"}
  /\ ipc = "idle" /\ res = NoValue
  /\ \A i \in 1 .. Len(out) : out[i].name \notin {At(BODIES, b)[1] : b \in 0 .. Len(BODIES) - 1}

\* C12: when a table holds a header and no valid row (no data line, or
\* only malformed ones), its load reports an error and no query is run.
C12_EmptySource ==
  /\ (MoonLoadDone /\ EmptySource(moon_file, Len(MoonHeader))) =>
        (LoadFailed(MOON_FILE) /\ NoQueryRun)
  /\ (PlanetsLoadDone /\ EmptySource(planets_file, Len(PlanetsHeader))) =>
        (LoadFailed(PLANETS_FILE) /\ NoQueryRun)

SameAnswers ==
  \A i \in 1 .. Len(history) : \A j \in 1 .. Len(history) :
    (/\ history[i].target_jd = history[j].target_jd
     /\ history[i].col_offset = history[j].col_offset) => history[i].res = history[j].res

\* C13: no step of a run of queries, whatever the targets and columns and
\* whether the calls return a value or out of range, changes times or
\* rows, and two calls with the same arguments return the same result
\* whatever calls were made between them.
C13_ReadOnly == [][times' = times /\ rows' = rows]_vars /\ []SameAnswers

C13_Witness ==
  /\ Len(history) = 3
  /\ history[1].res.kind = "value"
  /\ history[2].res.kind = "None"
  /\ history[3] = history[1]
  /\ history[1].res.ra # At(At(rows, 0), history[1].col_offset)
  /\ rows = <<NarrowRow(Deg(0), 11), NarrowRow(Deg(2), 12), NarrowRow(Deg(1), 1)>>

\* C14: on strictly ascending Julian Dates, one row or more, and a target
\* inside the table (a stored Julian Date and the single row included),
\* the division that gives frac never has t_low = t_high, and frac lies in
\* [0, 1].
C14_NoDivisionByZero ==
  (ipc = "ret" /\ Len(times) >= 1 /\ StrictlyAscending(times) /\ InRange) =>
    /\ res.kind # "ZeroDivisionError"
    /\ At(times, low) # At(times, high)
    /\ 0 <= frac /\ frac <= Deg(1)

\* C15: for a table of one row or more, sorted or not, and a target that
\* passes the range check, the bisection ends: every iteration makes
\* high - low smaller and leaves 0 <= low < high <= n - 1, and the call
\* reaches its return.
C15_Termination ==
  /\ [][(ipc = "loop" /\ ipc' = "loop") =>
          (/\ high' - low' < high - low
           /\ 0 <= low' /\ low' < high' /\ high' <= Len(times) - 1)]_vars
  /\ (ipc = "call") ~> (ipc = "ret")

C15_Witness ==
  /\ ipc = "ret"
  /\ times = <<Deg(1), Deg(3), Deg(0), Deg(2), Deg(1)>>
  /\ target_jd = Deg(1)
  /\ low = 2 /\ high = 3
  /\ res.kind = "value"

====
